---- MODULE Spec2Model ----
(***************************************************************************)
(* InstanceActionManager (unshelve_manager.py) as a state machine.         *)
(*                                                                         *)
(* The manager runs on one asyncio event loop: a coroutine runs, without   *)
(* interruption, from one suspension to the next.  Every action below is   *)
(* one such run: it starts where a coroutine is resumed (a thread-pool     *)
(* call, a sleep, an HTTP request or an audit write has ended, or the      *)
(* manager lock has been handed to it) and goes on, through every          *)
(* _update_status whose lock is free, to the next suspension.              *)
(*                                                                         *)
(* asyncio.Lock: acquire() does not suspend when the lock is free and no   *)
(* waiter is queued; otherwise the caller is queued, and release() wakes   *)
(* the first waiter, which nobody can overtake.  lockHolder/lockWaiters    *)
(* model that as a hand-off to the head of the queue.                      *)
(*                                                                         *)
(* The provider (OpenStack), the HTTP healthcheck and the audit-log write  *)
(* are the environment: each call returns any outcome it can produce.      *)
(* message is kept as the tag of its template; last_updated is not kept.   *)
(* A task object (its locals, the audit lines written for it) is kept      *)
(* until its _clear_task has read it; the audit log is append-only and     *)
(* nothing reads it back.  ret is what the step just taken handed to a     *)
(* caller.                                                                 *)
(*                                                                         *)
(* The done callback of a finished task is run by the next iteration of    *)
(* the event loop and the _clear_task it creates by the one after: window  *)
(* counts the steps other coroutines may still take before that, at most   *)
(* WindowSteps.                                                            *)
(***************************************************************************)
EXTENDS Integers, Sequences, FiniteSets, TLC

\* Bounds of the model.
MaxTasks == 2
MaxRaceTasks == 3
NumCallers == 2
ProbeAttempts == 2
WindowSteps == 2
IdleTimeout == 3
PollInterval == 1
MaxClock == 9
MaxEntries == 2

Tasks == 1..MaxRaceTasks
Callers == 1..NumCallers
Buttons == {"b1"}
Ids == Buttons \cup {"missing"}

None == "None"

\* The access log before anything was written to it, and the monitor's offset
\* into it: ActivityMonitor.__init__ sets _offset = 0.
NoLog ==
    [exists |-> FALSE, file |-> <<>>, offset |-> 0, processed |-> <<>>, truncated |-> FALSE]

\* No address selection has been asked for.
NoResolve == [server |-> None, preferred_networks |-> <<>>, address |-> None, done |-> FALSE]
LaunchUrl == "launch_url"

NoProc == <<"none", 0>>
WfProc(w) == <<"wf", w>>
ClrProc(w) == <<"clr", w>>
CallProc(c) == <<"call", c>>

VARIABLES statuses, tasks, wf, clr, window, lockHolder, lockWaiters, audit, calls, ret,
          changes, monitor, resolve, config, log

\* The variables of the manager and of its callers.
managerVars ==
    <<statuses, tasks, wf, clr, window, lockHolder, lockWaiters, audit, calls, ret, changes>>

vars == <<statuses, tasks, wf, clr, window, lockHolder, lockWaiters, audit, calls, ret,
          changes, monitor, resolve, config, log>>

----------------------------------------------------------------------------
\* Provider statuses as the SDK may report them, and (status or "").upper().
RawStatuses == {"SHELVED", "SHELVED_OFFLOADED", "ACTIVE", "active", "ERROR",
                "UNKNOWN", "SHUTOFF", ""}

Upper(raw) == IF raw = "active" THEN "ACTIVE" ELSE raw

\* A test that knows one of the two shelved statuses only.
IsShelvedNotOffloaded(status) == status = "SHELVED"

\* status in {"SHELVED", "SHELVED_OFFLOADED"}
IsShelved(status) == status \in {"SHELVED", "SHELVED_OFFLOADED"}

\* What build_endpoint makes of a server: no address, an endpoint, or an exception.
EndpointOutcomes == {"none", "ok", "raise"}

\* A server object as the workflow reads it: its status and what its addresses resolve to.
Servers == {[status |-> r, ep |-> "na"] : r \in RawStatuses \ {"ACTIVE", "active"}}
             \cup {[status |-> r, ep |-> e] : r \in {"ACTIVE", "active"}, e \in EndpointOutcomes}

\* find_server: an SDK exception, no server of that name, or a server.
FindResults == {[status |-> "exc", ep |-> "na"], [status |-> "none", ep |-> "na"]} \cup Servers

\* get_server: an exception (ResourceNotFound included) or a server.
GetResults == {[status |-> "exc", ep |-> "na"]} \cup Servers

\* One healthcheck GET: a response below 400, one at 400 or above, an httpx.HTTPError,
\* or another exception.
ProbeResults == {"ok", "http_error_status", "transport_error", "other_exception"}

----------------------------------------------------------------------------
\* ButtonStatus and the record the constructor builds.
InitialStatus(msg) ==
    [state |-> "idle", message |-> msg, running |-> FALSE,
     url |-> None, http_ready |-> FALSE, error |-> None]

\* _prime_initial_statuses: the message its single lookup leaves.
PrimeMessages == {"unable_to_query", "instance_not_found", "instance_status"}

\* A placeholder where no record is returned.
NoStatus ==
    [state |-> None, message |-> None, running |-> FALSE,
     url |-> None, http_ready |-> FALSE, error |-> None]

\* An update that builds the record from the arguments alone.
UpdateStatusFromBlank(status, patch) ==
    [f \in DOMAIN status |-> IF f \in DOMAIN patch THEN patch[f] ELSE NoStatus[f]]

\* _update_status: a patch holds the arguments that were passed; every other field
\* keeps the current value (state/message/running/http_ready default to None, url and
\* error to _UNSET, so an explicit url=None or error=None is a passed argument).
UpdateStatus(status, patch) ==
    [f \in DOMAIN status |-> IF f \in DOMAIN patch THEN patch[f] ELSE status[f]]

\* calls[c]: the call caller c has in progress.
IdleCall ==
    [op |-> "idle", id |-> "b1", pc |-> "idle", task |-> 0, updated |-> NoStatus,
     msg |-> None]

\* ret: how the call that ended in the step just taken ended, if one did.
NoRet ==
    [op |-> "none", id |-> "b1", outcome |-> "none", value |-> NoStatus, task |-> 0,
     instance |-> None]

Returned(op, id, value, task) ==
    [op |-> op, id |-> id, outcome |-> "returned", value |-> value, task |-> task,
     instance |-> None]

\* A lookup that answers an unknown id with an empty record instead of raising.
ReturnedEmpty(op, id) == Returned(op, id, NoStatus, 0)

\* raise KeyError(f"Unknown button id '{button_id}'")
RaisedKeyError(op, id) ==
    [op |-> op, id |-> id, outcome |-> "KeyError", value |-> NoStatus, task |-> 0,
     instance |-> None]

\* An exception of the audit write leaves the call.
RaisedOther(op, id, task) ==
    [op |-> op, id |-> id, outcome |-> "raised", value |-> NoStatus, task |-> task,
     instance |-> None]

\* _idle_shutdown returns without calling start_shelve.  The callback does not ask
\* the provider; instance is the status the instance has at that moment.
Skipped(id, value, instance) ==
    [op |-> "idle_shutdown", id |-> id, outcome |-> "skipped", value |-> value,
     task |-> 0, instance |-> instance]

----------------------------------------------------------------------------
\* The shared state as one value, so that a coroutine can be run over it.  changes
\* lists the assignments to self._statuses[id] of the step being taken that gave the
\* record another state.
Cur == [st |-> statuses, tk |-> tasks, wf |-> wf, clr |-> clr, window |-> window,
        holder |-> lockHolder, waiters |-> lockWaiters, audit |-> audit,
        changes |-> <<>>]

Commit(s) ==
    /\ \E t \in {s} :
         /\ statuses' = t.st
         /\ tasks' = t.tk
         /\ wf' = t.wf
         /\ clr' = t.clr
         /\ window' = t.window
         /\ lockHolder' = t.holder
         /\ lockWaiters' = t.waiters
         /\ audit' = t.audit
         /\ changes' = t.changes
    /\ UNCHANGED <<monitor, resolve, config, log>>

\* self._statuses[id] = new, written by `by` (a start_* call, refresh, or the
\* workflow of that kind).
Write(s, id, new, by) ==
    [s EXCEPT !.st[id] = new,
              !.changes = IF new.state = s.st[id].state THEN @
                          ELSE Append(@, [id |-> id, by |-> by, from |-> s.st[id].state,
                                          running |-> s.st[id].running,
                                          to |-> new.state])]

\* A _clear_task that was created and has not run yet.
ClearPending(s) == \E w \in Tasks : s.clr[w] = "scheduled"

\* A coroutine other than a pending _clear_task may take a step.
CanStep == ClearPending(Cur) => window > 0

\* The state such a step starts from.
Base == [Cur EXCEPT !.window = IF ClearPending(Cur) THEN @ - 1 ELSE @]

\* asyncio.Lock
LockFree(s) == s.holder = NoProc /\ s.waiters = <<>>

Acquire(s, p) == [s EXCEPT !.holder = p]

Enqueue(s, p) == [s EXCEPT !.waiters = Append(@, p)]

\* A release that frees the lock and wakes no waiter.
ReleaseWakesNobody(s) == [s EXCEPT !.holder = NoProc]

Release(s) ==
    IF s.waiters = <<>>
    THEN [s EXCEPT !.holder = NoProc]
    ELSE [s EXCEPT !.holder = Head(s.waiters), !.waiters = Tail(s.waiters)]

\* EventLogger.log appends one line; audit[w] holds the lines written for task w.
LogEvent(s, action, w) == [s EXCEPT !.audit[w] = Append(@, action)]

----------------------------------------------------------------------------
\* A workflow task: _run_unshelve or _run_shelve, its position (pc) and its locals
\* (status, ep, attempt, detail), and what it went through: whether the first lookup
\* found the instance shelved (found), the exception its handler caught (exc), the
\* terminal event of its try block (event), the way it left the try block (branch),
\* whether the task ended with an exception (raised), how many unshelve_server or
\* shelve_server calls it has handed to the thread pool (requests), how many
\* healthcheck GETs it has issued (gets), how the latest of them ended (last), and
\* whether it has carried out an _update_status yet (mutated).
NoWorkflow ==
    [kind |-> "none", button |-> "b1", pc |-> "none", status |-> "", ep |-> "na",
     attempt |-> 0, detail |-> None, found |-> None, exc |-> None, event |-> None,
     branch |-> None, raised |-> FALSE, requests |-> 0, gets |-> 0, last |-> None,
     mutated |-> FALSE]

NewWorkflow(kind, b) ==
    [NoWorkflow EXCEPT !.kind = kind, !.button = b,
                       !.pc = IF kind = "unshelve" THEN "U_find" ELSE "S_find"]

UpdateLabels ==
    {"U_upd_current", "U_upd_requesting", "W_upd_booting", "U_upd_noendpoint",
     "U_upd_active", "P_upd_checking", "U_upd_ready", "U_upd_incomplete",
     "H_update", "F_update", "S_upd_already", "S_upd_requesting",
     "V_upd_progress", "S_upd_shelved"}

LocalLabels == {"W_check", "U_build"}

FinalPatchKeepsRunning == [running |-> TRUE]

\* The update of the finally clause of both workflows.
FinalPatch == [running |-> FALSE]

\* The arguments of the _update_status call at each place of the workflows.
PatchOf(x) ==
    CASE x.pc = "U_upd_current" ->
            [message |-> "current_status",
             state |-> IF IsShelved(x.status) THEN "unshelving" ELSE "booting"]
      [] x.pc = "U_upd_requesting" -> [message |-> "requesting_unshelve"]
      [] x.pc = "W_upd_booting" -> [state |-> "booting", message |-> "recheck"]
      [] x.pc = "U_upd_noendpoint" ->
            [state |-> "active", message |-> "no_address", url |-> None,
             http_ready |-> FALSE]
      [] x.pc = "U_upd_active" ->
            [state |-> "active", message |-> "checking_application",
             url |-> LaunchUrl, http_ready |-> FALSE]
      [] x.pc = "P_upd_checking" ->
            [state |-> "checking_http", message |-> "checking_service"]
      [] x.pc = "U_upd_ready" ->
            [state |-> "ready", message |-> "ready", url |-> LaunchUrl,
             http_ready |-> TRUE, error |-> None]
      [] x.pc = "U_upd_incomplete" ->
            [state |-> "active", message |-> "not_responding", url |-> LaunchUrl,
             http_ready |-> FALSE, error |-> x.detail]
      [] x.pc = "H_update" ->
            [state |-> "error", message |-> "workflow_failed",
             http_ready |-> FALSE, error |-> x.exc]
      [] x.pc = "F_update" -> FinalPatch
      [] x.pc = "S_upd_already" ->
            [state |-> "shelved", message |-> "already_shelved",
             http_ready |-> FALSE, url |-> None]
      [] x.pc = "S_upd_requesting" ->
            [state |-> "shelving", message |-> "requesting_shelve"]
      [] x.pc = "V_upd_progress" ->
            [state |-> "shelving", message |-> "shelve_in_progress"]
      [] x.pc = "S_upd_shelved" ->
            [state |-> "shelved", message |-> "shelved", url |-> None,
             http_ready |-> FALSE]

\* The locals of the try block are not read again once it is left.
Forget(x) == [x EXCEPT !.status = "", !.ep = "na", !.attempt = 0, !.detail = None]

\* Where the workflow goes after the _update_status at x.pc.
AfterUpdate(x) ==
    CASE x.pc = "U_upd_current" ->
            IF IsShelved(x.status) THEN [x EXCEPT !.pc = "U_upd_requesting", !.status = ""]
            ELSE [x EXCEPT !.pc = "W_check"]
      [] x.pc = "U_upd_requesting" -> [x EXCEPT !.pc = "U_unshelve", !.requests = @ + 1]
      [] x.pc = "W_upd_booting" -> [x EXCEPT !.pc = "W_poll"]
      [] x.pc = "U_upd_noendpoint" -> [Forget(x) EXCEPT !.pc = "F_update", !.branch = "no_endpoint"]
      [] x.pc = "U_upd_active" -> [x EXCEPT !.pc = "P_upd_checking", !.attempt = 1]
      [] x.pc = "P_upd_checking" -> [x EXCEPT !.pc = "P_get", !.gets = @ + 1]
      [] x.pc = "U_upd_ready" ->
            [Forget(x) EXCEPT !.pc = "T_log", !.event = "unshelve_complete",
                              !.branch = "ready"]
      [] x.pc = "U_upd_incomplete" ->
            [Forget(x) EXCEPT !.pc = "T_log", !.event = "unshelve_incomplete",
                              !.branch = "incomplete", !.detail = x.detail]
      [] x.pc = "H_update" -> [x EXCEPT !.pc = "H_log"]
      [] x.pc = "F_update" -> [x EXCEPT !.pc = "done"]
      [] x.pc = "S_upd_already" ->
            [x EXCEPT !.pc = "T_log", !.event = "shelve_complete",
                      !.branch = "already_shelved", !.detail = "already shelved"]
      [] x.pc = "S_upd_requesting" -> [x EXCEPT !.pc = "S_shelve", !.requests = @ + 1]
      [] x.pc = "V_upd_progress" -> [x EXCEPT !.pc = "V_poll"]
      [] x.pc = "S_upd_shelved" ->
            [x EXCEPT !.pc = "T_log", !.event = "shelve_complete", !.branch = "shelved",
                      !.detail = "reason"]

\* Raising exc inside the try block: control goes to the except handler.
Raise(x, exc) == [Forget(x) EXCEPT !.pc = "H_update", !.exc = exc]

\* The code between two awaits that touches no shared state.
\* W_check: the status tests of _wait_until_active; U_build: build_endpoint and the
\* test of its result.
AfterLocal(x) ==
    CASE x.pc = "W_check" ->
            IF x.status = "ACTIVE" THEN [x EXCEPT !.pc = "U_build"]
            ELSE IF x.status \in {"ERROR", "UNKNOWN"}
                 THEN Raise(x, IF x.status = "ERROR" THEN "entered_ERROR"
                                                      ELSE "entered_UNKNOWN")
                 ELSE [x EXCEPT !.pc = "W_upd_booting", !.ep = "na"]
      [] x.pc = "U_build" ->
            IF x.ep = "none" THEN [x EXCEPT !.pc = "U_upd_noendpoint", !.status = "", !.ep = "na"]
            ELSE IF x.ep = "ok" THEN [x EXCEPT !.pc = "U_upd_active", !.status = "", !.ep = "na"]
            ELSE Raise(x, "endpoint_error")

\* The done callback of a finished workflow task schedules _clear_task.
Finish(s, w) ==
    [s EXCEPT !.clr[w] = "scheduled",
              !.window = IF ClearPending(s) THEN @ ELSE WindowSteps]

\* One _update_status of workflow w with the lock in hand: read, replace, write.
DoUpdate(s, w) ==
    LET x == s.wf[w]
        t == [Write(s, x.button, UpdateStatus(s.st[x.button], PatchOf(x)), x.kind)
                EXCEPT !.wf[w] = [AfterUpdate(x) EXCEPT !.mutated = TRUE]]
    IN IF x.pc = "F_update" THEN Finish(t, w) ELSE t

\* Run workflow w until it suspends: at an await, or queued for the lock.
\* (The singleton set has the state s evaluated once per round.)
RECURSIVE Run(_, _)
Run(s, w) ==
    LET Round(t) ==
            LET x == t.wf[w] IN
            IF x.pc \in LocalLabels THEN Run([t EXCEPT !.wf[w] = AfterLocal(x)], w)
            ELSE IF x.pc \in UpdateLabels
                 THEN IF LockFree(t) THEN Run(DoUpdate(t, w), w)
                      ELSE Enqueue(t, WfProc(w))
                 ELSE t
    IN CHOOSE r \in {Round(t) : t \in {s}} : TRUE

\* The coroutine of task w has not returned: not task.done().
Executing(x) == x.pc \notin {"none", "done"}

\* Workflow w is resumed at the await it is suspended in, with locals x.
Resume(w, x) ==
    /\ CanStep
    /\ Commit(Run([Base EXCEPT !.wf[w] = x], w))
    /\ UNCHANGED calls
    /\ ret' = NoRet

----------------------------------------------------------------------------
\* The workflow steps: what resumes a workflow, and its run to the next suspension.

\* _run_unshelve / _run_shelve: find_server returns.
FindServerReturns(w) ==
    /\ wf[w].pc \in {"U_find", "S_find"}
    /\ \E r \in FindResults :
         LET x == wf[w]
             status == Upper(r.status)
         IN Resume(w,
              IF r.status = "exc" THEN Raise(x, "sdk_error")
              ELSE IF r.status = "none" THEN Raise(x, "not_found")
              ELSE IF x.kind = "unshelve"
                   THEN [x EXCEPT !.pc = "U_upd_current", !.status = status, !.ep = r.ep,
                                  !.found = IF IsShelved(status) THEN "shelved"
                                            ELSE "not_shelved"]
                   ELSE IF IsShelved(status)
                        THEN [x EXCEPT !.pc = "S_upd_already"]
                        ELSE [x EXCEPT !.pc = "S_upd_requesting"])

\* _run_unshelve: unshelve_server returns or raises.
UnshelveReturns(w) ==
    /\ wf[w].pc = "U_unshelve"
    /\ \E ok \in BOOLEAN :
         Resume(w, IF ok THEN [wf[w] EXCEPT !.pc = "W_check"]
                   ELSE Raise(wf[w], "unshelve_failed"))

\* _wait_until_active: the sleep ends and get_server returns.
PollActiveReturns(w) ==
    /\ wf[w].pc = "W_poll"
    /\ \E r \in GetResults :
         Resume(w, IF r.status = "exc" THEN Raise(wf[w], "sdk_error")
                   ELSE [wf[w] EXCEPT !.pc = "W_check", !.status = Upper(r.status),
                                      !.ep = r.ep])

\* _probe_http with the default of the application only.
attempts_of_app == config.app_http_probe_attempts

\* _probe_http: attempts = button.http_probe_attempts or
\* self._app_settings.http_probe_attempts (an override that is None counts as 0 here).
attempts ==
    IF config.http_probe_attempts # 0 THEN config.http_probe_attempts
    ELSE config.app_http_probe_attempts

\* _probe_http: one GET ends.
ProbeResponds(w) ==
    /\ wf[w].pc = "P_get"
    /\ \E r \in ProbeResults :
         LET x == [wf[w] EXCEPT !.last = r]
             failed == [x EXCEPT !.detail = IF r = "http_error_status" THEN "HTTP 500"
                                            ELSE "transport_error",
                                 !.pc = IF x.attempt < attempts THEN "P_sleep"
                                        ELSE "U_upd_incomplete"]
         IN Resume(w, IF r = "ok" THEN [x EXCEPT !.pc = "U_upd_ready", !.detail = None]
                      ELSE IF r = "other_exception" THEN Raise(x, "probe_error")
                      ELSE failed)

\* _probe_http: the sleep between two attempts ends.
ProbeSleepEnds(w) ==
    /\ wf[w].pc = "P_sleep"
    /\ Resume(w, [wf[w] EXCEPT !.pc = "P_upd_checking", !.attempt = @ + 1])

\* _run_shelve: shelve_server returns or raises.
ShelveReturns(w) ==
    /\ wf[w].pc = "S_shelve"
    /\ \E ok \in BOOLEAN :
         Resume(w, IF ok THEN [wf[w] EXCEPT !.pc = "V_poll"]
                   ELSE Raise(wf[w], "shelve_failed"))

\* _wait_until_shelved: get_server returns (after the sleep, from the second round on).
PollShelvedReturns(w) ==
    /\ wf[w].pc = "V_poll"
    /\ \E r \in GetResults :
         Resume(w, IF r.status = "exc" THEN Raise(wf[w], "sdk_error")
                   ELSE IF IsShelved(Upper(r.status))
                        THEN [wf[w] EXCEPT !.pc = "S_upd_shelved"]
                        ELSE [wf[w] EXCEPT !.pc = "V_upd_progress"])

\* The audit write of a terminal event of the try block ends: written, or failed
\* (the failure is raised inside the try block).
TerminalLogEnds(w) ==
    /\ wf[w].pc = "T_log"
    /\ CanStep
    /\ \E failed \in BOOLEAN :
         LET x == wf[w] IN
         IF ~failed
         THEN Commit(Run(LogEvent([Base EXCEPT !.wf[w] = [x EXCEPT !.pc = "F_update"]],
                                  x.event, w), w))
         ELSE Commit(Run([Base EXCEPT !.wf[w] = Raise(x, "audit_write_failed")], w))
    /\ UNCHANGED calls
    /\ ret' = NoRet

\* The audit write of workflow_failed ends: written, or failed (the failure leaves
\* the except block; finally still runs and the task ends with the exception).
FailureLogEnds(w) ==
    /\ wf[w].pc = "H_log"
    /\ CanStep
    /\ \E failed \in BOOLEAN :
         LET x == wf[w] IN
         IF ~failed
         THEN Commit(Run(LogEvent([Base EXCEPT !.wf[w] = [x EXCEPT !.pc = "F_update"]],
                                  "workflow_failed", w), w))
         ELSE Commit(Run([Base EXCEPT !.wf[w] = [x EXCEPT !.pc = "F_update",
                                                          !.raised = TRUE]], w))
    /\ UNCHANGED calls
    /\ ret' = NoRet

\* The lock is handed to a workflow queued in _update_status.
WorkflowLockGranted(w) ==
    /\ lockHolder = WfProc(w)
    /\ CanStep
    /\ Commit(Run(Release(DoUpdate(Base, w)), w))
    /\ UNCHANGED calls
    /\ ret' = NoRet

----------------------------------------------------------------------------
\* _clear_task: self._tasks.pop(button_id, None) under the lock.
ClearTask(tk, b, w) == [tk EXCEPT ![b] = 0]

\* Nothing but its _clear_task refers to task w once that has read task.exception().
Collected == [NoWorkflow EXCEPT !.kind = "collected", !.pc = "done"]

ClearTaskBegins(s, w) ==
    LET t == [s EXCEPT !.clr[w] = "waiting", !.wf[w] = Collected, !.audit[w] = <<>>]
    IN [t EXCEPT !.window = IF ClearPending(t) THEN @ ELSE 0]

ClearTaskEnds(s, w) ==
    [s EXCEPT !.tk = ClearTask(s.tk, s.wf[w].button, w), !.clr[w] = "finished"]

\* The task created by the done callback runs: it pops the entry, or queues for the lock.
ClearTaskRuns(w) ==
    /\ clr[w] = "scheduled"
    /\ IF LockFree(Cur)
       THEN Commit(ClearTaskEnds(ClearTaskBegins(Cur, w), w))
       ELSE Commit(Enqueue(ClearTaskBegins(Cur, w), ClrProc(w)))
    /\ UNCHANGED calls
    /\ ret' = NoRet

ClearTaskLockGranted(w) ==
    /\ lockHolder = ClrProc(w)
    /\ Commit(Release(ClearTaskEnds(Cur, w)))
    /\ UNCHANGED calls
    /\ ret' = NoRet

----------------------------------------------------------------------------
\* The public operations, each called by one of the callers (HTTP handlers, the
\* idle monitor).

Created == Cardinality({w \in Tasks : wf[w].kind # "none"})

NextTask == CHOOSE w \in Tasks : wf[w].kind = "none" /\ \A v \in 1..(w - 1) : wf[v].kind # "none"

\* Tasks are bounded: a start_* call begins only while fewer than limit were created
\* or are about to be.
TaskLeft(limit) == Created + Cardinality({c \in Callers : calls[c].pc = "lock"}) < limit

\* self._buttons.get(button_id) / self._statuses.get(button_id)
Configured(id) == id \in Buttons

\* A call that touches nothing but its caller.
OnlyReturns ==
    /\ window' = Base.window
    /\ changes' = <<>>
    /\ UNCHANGED <<statuses, tasks, wf, clr, lockHolder, lockWaiters, audit, calls>>
    /\ UNCHANGED <<monitor, resolve, config, log>>

\* Callers are interchangeable: a new call is made by the first one that is free.
Free(c) == calls[c].op = "idle" /\ \A d \in 1..(c - 1) : calls[d].op # "idle"

\* get_status
GetStatus(c, id) ==
    /\ Free(c)
    /\ CanStep
    /\ ret' = (IF Configured(id) THEN Returned("get_status", id, statuses[id], 0)
                                 ELSE RaisedKeyError("get_status", id))
    /\ OnlyReturns

\* task and not task.done()
TaskRunning(s, id) == s.tk[id] # 0 /\ Executing(s.wf[s.tk[id]])

\* A replace(current, ...) that leaves out error=None.
StartPatchKeepingError(op, current) ==
    IF op = "start_unshelve"
    THEN [state |-> "unshelving", message |-> "starting_unshelve", running |-> TRUE,
          http_ready |-> FALSE, url |-> None]
    ELSE [state |-> "shelving", message |-> "starting_shelve", running |-> TRUE,
          http_ready |-> FALSE, url |-> current.url]

\* The replace(current, ...) of start_unshelve and of start_shelve.
StartPatch(op, current) ==
    IF op = "start_unshelve"
    THEN [state |-> "unshelving", message |-> "starting_unshelve", running |-> TRUE,
          http_ready |-> FALSE, error |-> None, url |-> None]
    ELSE [state |-> "shelving", message |-> "starting_shelve", running |-> TRUE,
          http_ready |-> FALSE, error |-> None, url |-> current.url]

WorkflowKind(op) == IF op = "start_unshelve" THEN "unshelve" ELSE "shelve"

\* Both calls logging the event of start_unshelve.
RequestedEventCopied(op) == "unshelve_requested"

\* The action name start_unshelve and start_shelve pass to log_event.
RequestedEvent(op) ==
    IF op = "start_unshelve" THEN "unshelve_requested" ELSE "shelve_requested"

\* start_unshelve / start_shelve inside `async with self._lock`, up to the await of
\* the audit write (the lock stays held) or to the early return.
StartLocked(c, op, id, s) ==
    IF TaskRunning(s, id)
    THEN /\ Commit(Release(s))
         /\ calls' = [calls EXCEPT ![c] = IdleCall]
         /\ ret' = Returned(op, id, s.st[id], 0)
    ELSE LET w == NextTask
             updated == UpdateStatus(s.st[id], StartPatch(op, s.st[id]))
         IN /\ Commit([Write(s, id, updated, op)
                         EXCEPT !.wf[w] = NewWorkflow(WorkflowKind(op), id),
                                !.tk[id] = w])
            /\ calls' = [calls EXCEPT ![c] = [op |-> op, id |-> id, pc |-> "log",
                                              task |-> w, updated |-> updated,
                                              msg |-> None]]
            /\ ret' = NoRet

Start(c, op, id, limit) ==
    /\ Free(c)
    /\ CanStep
    /\ IF ~Configured(id)
       THEN /\ ret' = RaisedKeyError(op, id)
            /\ OnlyReturns
       ELSE /\ TaskLeft(limit)
            /\ IF LockFree(Cur)
               THEN StartLocked(c, op, id, Acquire(Base, CallProc(c)))
               ELSE /\ Commit(Enqueue(Base, CallProc(c)))
                    /\ calls' = [calls EXCEPT ![c] = [IdleCall EXCEPT !.op = op, !.id = id,
                                                                      !.pc = "lock"]]
                    /\ ret' = NoRet

StartUnshelve(c, id) == Start(c, "start_unshelve", id, MaxTasks)

StartShelve(c, id) == Start(c, "start_shelve", id, MaxTasks)

\* The same two calls where nothing but start_* is called, for more tasks.
RaceUnshelve(c, id) == Start(c, "start_unshelve", id, MaxRaceTasks)

RaceShelve(c, id) == Start(c, "start_shelve", id, MaxRaceTasks)

\* The lock is handed to a queued start_* call.
StartLockGranted(c) ==
    /\ calls[c].pc = "lock"
    /\ lockHolder = CallProc(c)
    /\ CanStep
    /\ StartLocked(c, calls[c].op, calls[c].id, Base)

\* The audit write of *_requested ends: the lock is released and the call returns
\* `updated`, or the write's exception leaves the call.
StartLogEnds(c) ==
    /\ calls[c].pc = "log"
    /\ CanStep
    /\ \E failed \in BOOLEAN :
         LET k == calls[c] IN
         /\ Commit(Release(IF failed THEN Base
                                      ELSE LogEvent(Base, RequestedEvent(k.op), k.task)))
         /\ ret' = (IF failed THEN RaisedOther(k.op, k.id, k.task)
                              ELSE Returned(k.op, k.id, k.updated, k.task))
    /\ calls' = [calls EXCEPT ![c] = IdleCall]

\* refresh_openstack_status up to its lookup.
RefreshStatus(c, id) ==
    /\ Free(c)
    /\ CanStep
    /\ window' = Base.window
    /\ IF ~Configured(id)
       THEN /\ ret' = RaisedKeyError("refresh", id)
            /\ calls' = calls
       ELSE IF statuses[id].running
            THEN /\ ret' = Returned("refresh", id, statuses[id], 0)
                 /\ calls' = calls
            ELSE /\ ret' = NoRet
                 /\ calls' = [calls EXCEPT ![c] = [IdleCall EXCEPT !.op = "refresh",
                                                                   !.id = id, !.pc = "find"]]
    /\ changes' = <<>>
    /\ UNCHANGED <<statuses, tasks, wf, clr, lockHolder, lockWaiters, audit>>
    /\ UNCHANGED <<monitor, resolve, config, log>>

\* The message refresh_openstack_status makes of its lookup.
RefreshMessage(r) ==
    IF r.status = "exc" THEN "unable_to_query"
    ELSE IF r.status = "none" THEN "instance_not_found"
    ELSE "instance_status"

\* A refresh that also records a failed lookup in the error field.
RefreshPatchFlaggingError(msg) ==
    [message |-> msg, error |-> IF msg = "unable_to_query" THEN msg ELSE None]

\* The arguments of the _update_status calls of refresh_openstack_status.
RefreshPatch(msg) == [message |-> msg]

\* refresh_openstack_status: _update_status(button_id, message=...) and the return.
RefreshUpdate(c, s, msg) ==
    LET id == calls[c].id
        new == UpdateStatus(s.st[id], RefreshPatch(msg))
    IN /\ Commit(Release(Write(s, id, new, "refresh")))
       /\ calls' = [calls EXCEPT ![c] = IdleCall]
       /\ ret' = Returned("refresh", id, new, 0)

\* refresh_openstack_status: find_server returns.
RefreshFindReturns(c) ==
    /\ calls[c].pc = "find"
    /\ CanStep
    /\ \E r \in FindResults :
         IF LockFree(Cur)
         THEN RefreshUpdate(c, Acquire(Base, CallProc(c)), RefreshMessage(r))
         ELSE /\ Commit(Enqueue(Base, CallProc(c)))
              /\ calls' = [calls EXCEPT ![c].pc = "upd", ![c].msg = RefreshMessage(r)]
              /\ ret' = NoRet

RefreshLockGranted(c) ==
    /\ calls[c].pc = "upd"
    /\ lockHolder = CallProc(c)
    /\ CanStep
    /\ RefreshUpdate(c, Base, calls[c].msg)

----------------------------------------------------------------------------
\* DEFAULT_BUTTON_ID, the target of the idle callback.
DefaultButton == "b1"

\* What the provider may report of the instance when the idle callback fires.
IdleInstanceStatuses == {"ACTIVE", "SHELVED_OFFLOADED"}

\* The states on which _idle_shutdown returns at once.
IdleSkipStates == {"shelved", "idle"}

\* _idle_shutdown, the on_idle callback of the activity monitor: get_status, the test
\* of the recorded state, and start_shelve up to its first suspension.
IdleShutdown(c, instance) ==
    /\ Free(c)
    /\ CanStep
    /\ IF statuses[DefaultButton].state \in IdleSkipStates
       THEN /\ ret' = Skipped(DefaultButton, statuses[DefaultButton], instance)
            /\ OnlyReturns
       ELSE Start(c, "start_shelve", DefaultButton, MaxTasks)

----------------------------------------------------------------------------
\* CaddyActivityMonitor (activity.py), its idle loop.  Time is counted in ticks of a
\* clock that stops at MaxClock; idle_timeout and poll_interval are IdleTimeout and
\* PollInterval ticks.  firedAt and prevFiredAt are the clock readings at which the
\* loop last and last but one invoked the callback (-1: not yet).
\* The state is the one after start(): both tasks are created.  pc is the place of
\* the idle task and tail that of the tail task; stop is the place of stop(); cancel
\* holds the tasks whose cancel() was called and that have not been woken since;
\* interrupted is the place at which the idle task received its CancelledError.
\* seen is the clock reading at which a scan last observed a matching record (-1: none).
\* health tells of each loop whether its latest iteration raised ("raised") and
\* whether it has run an iteration since one that raised ("resumed").
MonitorInit ==
    [clock |-> 0, pc |-> "check", last_activity |-> 0, now |-> 0, wake |-> 0,
     firedAt |-> -1, prevFiredAt |-> -1,
     tail |-> "created", stop |-> "none", stop_event |-> FALSE, cancel |-> {},
     interrupted |-> "none", seen |-> -1, health |-> [tail |-> "ok", idle |-> "ok"]]

\* Time passes.
Tick ==
    /\ monitor.clock < MaxClock
    /\ monitor' = [monitor EXCEPT !.clock = @ + 1]
    /\ UNCHANGED <<managerVars, resolve, config, log>>

\* An iteration of a loop begins.
Resumed(h) == IF h = "ok" THEN "ok" ELSE "resumed"

\* _idle_loop: now = _utcnow(), the test, and the call of the callback or the sleep.
IdleCheck ==
    /\ monitor.pc = "check"
    /\ "idle" \notin monitor.cancel
    /\ LET now == monitor.clock
           m == [monitor EXCEPT !.health.idle = Resumed(@)]
       IN monitor' =
            IF monitor.stop_event THEN [monitor EXCEPT !.pc = "done"]
            ELSE IF now - monitor.last_activity >= IdleTimeout
            THEN [m EXCEPT !.pc = "callback", !.now = now,
                           !.prevFiredAt = monitor.firedAt, !.firedAt = now]
            ELSE [m EXCEPT !.pc = "sleep", !.now = 0,
                           !.wake = monitor.clock + PollInterval]
    /\ UNCHANGED <<managerVars, resolve, config, log>>

\* An idle loop that an exception of the callback ends.
CallbackEndsLoop(ok) ==
    /\ monitor.pc = "callback"
    /\ "idle" \notin monitor.cancel
    /\ monitor' = IF ok THEN [monitor EXCEPT !.pc = "sleep", !.now = 0,
                                              !.wake = monitor.clock + PollInterval,
                                              !.last_activity = monitor.now]
                  ELSE [monitor EXCEPT !.pc = "done", !.now = 0, !.health.idle = "raised"]
    /\ UNCHANGED <<managerVars, resolve, config, log>>

\* _idle_loop: await self._on_idle() returns, or raises and the exception is logged.
CallbackEnds(ok) ==
    /\ monitor.pc = "callback"
    /\ "idle" \notin monitor.cancel
    /\ monitor' = [monitor EXCEPT !.pc = "sleep", !.now = 0,
                                  !.wake = monitor.clock + PollInterval,
                                  !.last_activity = IF ok THEN monitor.now ELSE @,
                                  !.health.idle = IF ok THEN @ ELSE "raised"]
    /\ UNCHANGED <<managerVars, resolve, config, log>>

\* _idle_loop: asyncio.sleep(poll_interval) ends.
SleepEnds ==
    /\ monitor.pc = "sleep"
    /\ "idle" \notin monitor.cancel
    /\ monitor.clock >= monitor.wake
    /\ monitor' = [monitor EXCEPT !.pc = "check", !.wake = 0]
    /\ UNCHANGED <<managerVars, resolve, config, log>>

\* _tail_loop: the test of the stop event, one _scan_once (which has no await: it
\* reads the new lines, and a matching record sets last_activity) and the sleep.
\* The scan may raise, before or after it has processed a matching record; the
\* exception is logged.
TailRuns ==
    /\ monitor.tail \in {"created", "sleep"}
    /\ "tail" \notin monitor.cancel
    /\ \E matched \in BOOLEAN, raised \in BOOLEAN :
         monitor' =
           IF monitor.stop_event THEN [monitor EXCEPT !.tail = "done"]
           ELSE [monitor EXCEPT !.tail = "sleep",
                                !.last_activity = IF matched THEN monitor.clock ELSE @,
                                !.seen = IF matched THEN monitor.clock ELSE @,
                                !.health.tail = IF raised THEN "raised" ELSE Resumed(@)]
    /\ UNCHANGED <<managerVars, resolve, config, log>>

\* The tasks of the monitor that have not ended.
LiveTasks(m) ==
    (IF m.tail # "done" THEN {"tail"} ELSE {}) \cup (IF m.pc # "done" THEN {"idle"} ELSE {})

\* stop(): the stop event is set, the tail task is cancelled and awaited.
StopCalled ==
    /\ monitor.stop = "none"
    /\ monitor' = [monitor EXCEPT !.stop_event = TRUE, !.stop = "await_tail",
                                  !.cancel = @ \cup ({"tail"} \cap LiveTasks(monitor))]
    /\ UNCHANGED <<managerVars, resolve, config, log>>

\* A cancelled task is woken with CancelledError at the await it is suspended at (or
\* before its first step); neither loop catches it, and the task ends.
Cancelled(t) ==
    /\ t \in monitor.cancel
    /\ monitor' =
         IF t = "tail" THEN [monitor EXCEPT !.tail = "done", !.cancel = @ \ {t}]
         ELSE [monitor EXCEPT !.pc = "done", !.interrupted = monitor.pc, !.now = 0,
                              !.wake = 0, !.cancel = @ \ {t}]
    /\ UNCHANGED <<managerVars, resolve, config, log>>

\* A stop() that cancels the tasks and returns without awaiting them.
StopReturnsAtOnce ==
    /\ monitor.stop = "await_tail"
    /\ monitor' = [monitor EXCEPT !.stop = "returned",
                                  !.cancel = @ \cup ({"idle"} \cap LiveTasks(monitor))]
    /\ UNCHANGED <<managerVars, resolve, config, log>>

\* stop(): an awaited task has ended; the idle task is cancelled and awaited next,
\* and after it stop() returns.
StopResumes ==
    /\ \/ /\ monitor.stop = "await_tail" /\ monitor.tail = "done"
          /\ monitor' = [monitor EXCEPT !.stop = "await_idle",
                                        !.cancel = @ \cup ({"idle"} \cap LiveTasks(monitor))]
       \/ /\ monitor.stop = "await_idle" /\ monitor.pc = "done"
          /\ monitor' = [monitor EXCEPT !.stop = "returned"]
    /\ UNCHANGED <<managerVars, resolve, config, log>>

\* The idle loop with no matching record arriving in the access log.
NextIdle ==
    \/ Tick
    \/ IdleCheck
    \/ \E ok \in BOOLEAN : CallbackEnds(ok)
    \/ SleepEnds

----------------------------------------------------------------------------
\* select_address and _first_address (openstack_client.py).  server.addresses is a
\* dict, which keeps its keys in insertion order: here the sequence of its items, a
\* network name and the list of its address entries.  An entry without "addr" is
\* one whose addr is None.
NetworkNames == <<"n1", "n2">>

AddrNames == <<<<"a11", "a12", "a13">>, <<"a21", "a22", "a23">>>>

EntryShapes ==
    {[type |-> t, version |-> v, present |-> TRUE] : t \in {"fixed", "floating"}, v \in {4, 6}}
      \cup {[type |-> "fixed", version |-> 4, present |-> FALSE]}

ShapeLists == UNION {[1..n -> EntryShapes] : n \in 0..MaxEntries}

\* The address list of network k with the entries of the given shapes.
EntriesOf(k, shapes) ==
    [i \in DOMAIN shapes |->
       [addr |-> IF shapes[i].present THEN AddrNames[k][i] ELSE None,
        type |-> shapes[i].type, version |-> shapes[i].version]]

AddressedServers ==
    {[addresses |-> [k \in DOMAIN NetworkNames |->
                       [name |-> NetworkNames[k], entries |-> EntriesOf(k, sh[k])]],
      accessIPv4 |-> v4, accessIPv6 |-> v6] :
       sh \in [DOMAIN NetworkNames -> ShapeLists],
       v4 \in {None, "access4"}, v6 \in {None, "access6"}}

\* button.preferred_networks: None or empty, or a list of network names, some of
\* which the server may not have.
PreferredLists ==
    {<<>>, <<"n1">>, <<"n2">>, <<"n0">>, <<"n1", "n2">>, <<"n2", "n1">>, <<"n0", "n2">>}

\* The first of the indices I, 0 if there is none: where a `for` loop returns.
FirstIndex(I) == IF I = {} THEN 0 ELSE CHOOSE i \in I : \A j \in I : i <= j

\* _first_address(candidates, preferred_type, prefer_ipv4)
first_address(candidates, preferred_type, prefer_ipv4) ==
    LET entries == SelectSeq(candidates, LAMBDA c : c.addr # None)
        typed == FirstIndex({i \in DOMAIN entries : entries[i].type = preferred_type})
        v4 == FirstIndex({i \in DOMAIN entries : entries[i].version = 4})
    IN IF preferred_type # None /\ typed # 0 THEN entries[typed].addr
       ELSE IF prefer_ipv4 /\ v4 # 0 THEN entries[v4].addr
       ELSE IF entries # <<>> THEN entries[1].addr
       ELSE None

\* A lookup that finds no network of the server.
NetworkEntriesMissing(addresses, network) == <<>>

\* addresses.get(network, [])
NetworkEntries(addresses, network) ==
    LET k == FirstIndex({i \in DOMAIN addresses : addresses[i].name = network})
    IN IF k = 0 THEN <<>> ELSE addresses[k].entries

\* select_address(server, preferred_networks)
select_address(server, preferred_networks) ==
    LET addresses == server.addresses
        preferred ==
            FirstIndex({i \in DOMAIN preferred_networks :
                          first_address(NetworkEntries(addresses, preferred_networks[i]),
                                        None, TRUE) # None})
        floating ==
            FirstIndex({i \in DOMAIN addresses :
                          first_address(addresses[i].entries, "floating", TRUE) # None})
        ipv4 ==
            FirstIndex({i \in DOMAIN addresses :
                          first_address(addresses[i].entries, None, TRUE) # None})
        any ==
            FirstIndex({i \in DOMAIN addresses :
                          first_address(addresses[i].entries, None, FALSE) # None})
    IN IF preferred # 0
       THEN first_address(NetworkEntries(addresses, preferred_networks[preferred]), None, TRUE)
       ELSE IF floating # 0 THEN first_address(addresses[floating].entries, "floating", TRUE)
       ELSE IF ipv4 # 0 THEN first_address(addresses[ipv4].entries, None, TRUE)
       ELSE IF any # 0 THEN first_address(addresses[any].entries, None, FALSE)
       ELSE IF server.accessIPv4 # None THEN server.accessIPv4
       ELSE IF server.accessIPv6 # None THEN server.accessIPv6
       ELSE None

\* build_endpoint: address = select_address(server, button.preferred_networks)
SelectAddress ==
    /\ ~resolve.done
    /\ resolve' = [resolve EXCEPT
                     !.address = select_address(resolve.server, resolve.preferred_networks),
                     !.done = TRUE]
    /\ UNCHANGED <<managerVars, monitor, config, log>>

----------------------------------------------------------------------------
\* Settings (config.py).  OpenStackSettings: the credential fields and the outcome of
\* their validator; a field is absent (None), an empty string, or set.
\* ButtonSettings.http_probe_attempts of the target (0 where it is None) and
\* AppSettings.http_probe_attempts.
NoConfig ==
    [username |-> None, password |-> None, project_name |-> None,
     application_credential_id |-> None, application_credential_secret |-> None,
     outcome |-> "loaded",
     http_probe_attempts |-> 0, app_http_probe_attempts |-> ProbeAttempts]

\* A validator that is content with a user name.
validate_username_only(c) ==
    IF c.username \notin {None, ""} THEN "accepted" ELSE "ValueError"

\* validate_credentials: all(basic_fields), all(application_fields), else ValueError.
validate_credentials(c) ==
    LET basic_fields == <<c.username, c.password, c.project_name>>
        application_fields == <<c.application_credential_id, c.application_credential_secret>>
        all(fields) == \A i \in DOMAIN fields : fields[i] \notin {None, ""}
    IN IF all(basic_fields) THEN "accepted"
       ELSE IF all(application_fields) THEN "accepted"
       ELSE "ValueError"

\* pydantic builds the settings object and runs the validator.
ValidateCredentials ==
    /\ config.outcome = "pending"
    /\ config' = [config EXCEPT !.outcome = validate_credentials(config)]
    /\ UNCHANGED <<managerVars, monitor, resolve, log>>

----------------------------------------------------------------------------
\* InstanceActionManager.__init__ and _prime_initial_statuses.
ManagerInit ==
    /\ \E m \in PrimeMessages : statuses = [b \in Buttons |-> InitialStatus(m)]
    /\ tasks = [b \in Buttons |-> 0]
    /\ wf = [w \in Tasks |-> NoWorkflow]
    /\ clr = [w \in Tasks |-> "none"]
    /\ window = 0
    /\ lockHolder = NoProc
    /\ lockWaiters = <<>>
    /\ audit = [w \in Tasks |-> <<>>]
    /\ calls = [c \in Callers |-> IdleCall]
    /\ ret = NoRet
    /\ changes = <<>>

\* The process after start: the manager, the activity monitor, no address resolved yet.
Init ==
    /\ ManagerInit
    /\ monitor = MonitorInit
    /\ log = NoLog
    /\ resolve = NoResolve
    /\ config = NoConfig

Next ==
    \/ \E c \in Callers, id \in Ids : GetStatus(c, id)
    \/ \E c \in Callers, id \in Ids : RefreshStatus(c, id)
    \/ \E c \in Callers : RefreshFindReturns(c)
    \/ \E c \in Callers : RefreshLockGranted(c)
    \/ \E c \in Callers, id \in Ids : StartUnshelve(c, id)
    \/ \E c \in Callers, id \in Ids : StartShelve(c, id)
    \/ \E c \in Callers, instance \in IdleInstanceStatuses : IdleShutdown(c, instance)
    \/ \E c \in Callers : StartLockGranted(c)
    \/ \E c \in Callers : StartLogEnds(c)
    \/ \E w \in Tasks : FindServerReturns(w)
    \/ \E w \in Tasks : UnshelveReturns(w)
    \/ \E w \in Tasks : PollActiveReturns(w)
    \/ \E w \in Tasks : ProbeResponds(w)
    \/ \E w \in Tasks : ProbeSleepEnds(w)
    \/ \E w \in Tasks : ShelveReturns(w)
    \/ \E w \in Tasks : PollShelvedReturns(w)
    \/ \E w \in Tasks : TerminalLogEnds(w)
    \/ \E w \in Tasks : FailureLogEnds(w)
    \/ \E w \in Tasks : WorkflowLockGranted(w)
    \/ \E w \in Tasks : ClearTaskRuns(w)
    \/ \E w \in Tasks : ClearTaskLockGranted(w)

Spec == Init /\ [][Next]_vars

\* The manager driven by start_unshelve and start_shelve alone.
NextRace ==
    \/ \E c \in Callers, id \in Buttons : RaceUnshelve(c, id)
    \/ \E c \in Callers, id \in Buttons : RaceShelve(c, id)
    \/ \E c \in Callers : StartLockGranted(c)
    \/ \E c \in Callers : StartLogEnds(c)
    \/ \E w \in Tasks : FindServerReturns(w)
    \/ \E w \in Tasks : UnshelveReturns(w)
    \/ \E w \in Tasks : PollActiveReturns(w)
    \/ \E w \in Tasks : ProbeResponds(w)
    \/ \E w \in Tasks : ProbeSleepEnds(w)
    \/ \E w \in Tasks : ShelveReturns(w)
    \/ \E w \in Tasks : PollShelvedReturns(w)
    \/ \E w \in Tasks : TerminalLogEnds(w)
    \/ \E w \in Tasks : FailureLogEnds(w)
    \/ \E w \in Tasks : WorkflowLockGranted(w)
    \/ \E w \in Tasks : ClearTaskRuns(w)
    \/ \E w \in Tasks : ClearTaskLockGranted(w)

SpecRace == Init /\ [][NextRace]_vars

TypeOK ==
    /\ lockHolder = NoProc => lockWaiters = <<>>
    /\ \A b \in Buttons : tasks[b] \in {0} \cup Tasks
    /\ window \in 0..WindowSteps

----------------------------------------------------------------------------
\* What the properties below are stated over.

\* The tasks of target b whose coroutine has not returned.
ExecutingFor(b) == {w \in Tasks : wf[w].button = b /\ Executing(wf[w])}

\* The coroutine of task w returns in this step.
Ends(w) == wf[w].pc # "done" /\ wf'[w].pc = "done"

StartOps == {"start_unshelve", "start_shelve"}

\* The start_* call of caller c passes the registry test and launches a task in this step.
Launches(c) == calls[c].pc # "log" /\ calls'[c].pc = "log"

\* A start_* call finds a task in flight and returns `current` in this step.
Declines == ret'.op \in StartOps /\ ret'.outcome = "returned" /\ ret'.task = 0

\* The start_* call of caller c, which launched a task, ends in this step.
Leaves(c) == calls[c].pc = "log" /\ calls'[c].pc # "log"

\* The lines of an audit sequence that carry the action e.
Count(seq, e) == Cardinality({i \in DOMAIN seq : seq[i] = e})

\* The record of the target of task w after the step.
RecordAfter(w) == statuses'[wf'[w].button]

----------------------------------------------------------------------------
\* C1: for every target, at most one workflow task (_run_unshelve or _run_shelve) is
\* executing at any time, under every interleaving of start_unshelve, start_shelve,
\* workflow completion and the deferred _clear_task.
C1_AtMostOneWorkflow == \A b \in Buttons : Cardinality(ExecutingFor(b)) <= 1

\* C2: in every reachable state the record of a target has running=true if and only
\* if a workflow task of that target is executing (launched and not yet past its
\* final running=false update).
C2_RunningIffExecuting == \A b \in Buttons : statuses[b].running <=> ExecutingFor(b) # {}

\* C3: a start_unshelve or start_shelve call that reaches its test on a target whose
\* record has running=true launches nothing: it returns the current record, and the
\* record, the registry, the tasks and the audit log stay as they are.
C3_StartWhileRunningIsNoOp ==
    [][/\ \A c \in Callers : Launches(c) => ~statuses[calls'[c].id].running
       /\ Declines => /\ ret'.value = statuses[ret'.id]
                      /\ UNCHANGED <<statuses, tasks, wf, audit>>]_vars

C6_ReadyPathEndsReady ==
    [][\A w \in Tasks :
         Ends(w) /\ wf'[w].found = "shelved" /\ wf'[w].branch = "ready"
                 /\ wf'[w].exc = None =>
           /\ RecordAfter(w).state = "ready" /\ RecordAfter(w).http_ready
           /\ RecordAfter(w).url # None /\ RecordAfter(w).error = None
           /\ ~RecordAfter(w).running
           /\ Count(audit'[w], "unshelve_complete") = 1]_vars

\* C7: a workflow in which a step failed (its handler caught an exception, and the
\* write of workflow_failed did not itself fail) ends with state=error, error set to
\* the failure detail, http_ready=false and running=false, with a workflow_failed
\* event recorded.
C7_FailureEndsInError ==
    [][\A w \in Tasks :
         Ends(w) /\ wf'[w].exc # None /\ ~wf'[w].raised =>
           /\ RecordAfter(w).state = "error" /\ RecordAfter(w).error = wf'[w].exc
           /\ ~RecordAfter(w).http_ready /\ ~RecordAfter(w).running
           /\ Count(audit'[w], "workflow_failed") = 1]_vars

\* C8: an unshelve workflow whose healthcheck attempts all failed after an endpoint
\* resolved (and which recorded the event of that) ends with state=active,
\* http_ready=false, url the launch URL, error the detail of the last failed attempt
\* and running=false, with exactly one unshelve_incomplete event and neither an
\* unshelve_complete nor a workflow_failed event recorded for it.
C8_ProbeExhaustedEndsActive ==
    [][\A w \in Tasks :
         Ends(w) /\ wf'[w].branch = "incomplete" /\ wf'[w].exc = None =>
           /\ RecordAfter(w).state = "active" /\ ~RecordAfter(w).http_ready
           /\ RecordAfter(w).url = LaunchUrl /\ RecordAfter(w).error = wf'[w].detail
           /\ ~RecordAfter(w).running
           /\ Count(audit'[w], "unshelve_incomplete") = 1
           /\ Count(audit'[w], "unshelve_complete") = 0
           /\ Count(audit'[w], "workflow_failed") = 0]_vars

\* C9: an unshelve workflow that saw the instance ACTIVE with no address resolving
\* ends with state=active, url=None, http_ready=false, error unset and running=false;
\* its handler never ran, it made no probe and its task ended without an exception.
C9_NoEndpointEndsActive ==
    [][\A w \in Tasks :
         Ends(w) /\ wf'[w].branch = "no_endpoint" =>
           /\ RecordAfter(w).state = "active" /\ RecordAfter(w).url = None
           /\ ~RecordAfter(w).http_ready /\ RecordAfter(w).error = None
           /\ ~RecordAfter(w).running
           /\ wf'[w].exc = None /\ wf'[w].attempt = 0 /\ ~wf'[w].raised]_vars

\* C10: get_status, refresh_openstack_status, start_unshelve and start_shelve on an
\* id that is not configured raise KeyError and do nothing else: no record, registry
\* entry, task, lock state or audit line changes, no lookup is begun, and no call on
\* such an id is ever left in progress.
C10_UnknownIdRaisesKeyError ==
    /\ [](\A c \in Callers : calls[c].op # "idle" => Configured(calls[c].id))
    /\ [][ret'.op # "none" /\ ~Configured(ret'.id) =>
            /\ ret'.outcome = "KeyError"
            /\ UNCHANGED <<statuses, tasks, wf, clr, lockHolder, lockWaiters, audit,
                           calls>>]_vars

\* A call on an unknown id has raised KeyError while a workflow is in flight.
C10_Witness ==
    /\ ret.outcome = "KeyError" /\ ret.op = "start_unshelve" /\ ~Configured(ret.id)
    /\ ExecutingFor("b1") # {}

----------------------------------------------------------------------------
\* C11: on a configured target get_status, refresh_status, start_unshelve and
\* start_shelve never raise: every call that ends hands a status record to its
\* caller, also when the provider query or the audit write inside it failed.
C11_ConfiguredCallsNeverRaise ==
    [][ret'.op # "none" /\ Configured(ret'.id) => ret'.outcome = "returned"]_vars

\* C12: every workflow that ends, by whichever path (ready, soft probe failure, no
\* endpoint, already shelved, shelved, the failure handler, or a failure raised
\* inside the failure handler), makes running=false its last status update: the
\* step in which it returns leaves the record with running=false, and it updates
\* nothing afterwards.
C12_FinishedWorkflowClearsRunning ==
    [][\A w \in Tasks :
         /\ Ends(w) => ~RecordAfter(w).running
         /\ wf[w].pc = "done" => wf'[w] \in {wf[w], Collected}]_vars

\* A workflow whose failure handler itself failed (the workflow_failed write raised)
\* has ended, and the record says state=error and running=false.
C12_Witness ==
    \E w \in Tasks :
      /\ wf[w].pc = "done" /\ wf[w].raised /\ wf[w].exc # None
      /\ statuses[wf[w].button].state = "error"
      /\ ~statuses[wf[w].button].running

----------------------------------------------------------------------------
\* The manager driven by start_unshelve alone, with the scheduling of the event loop:
\* a coroutine that can continue is continued, and a call handed to the thread pool
\* (find_server, unshelve_server, get_server, the healthcheck GET, the audit write)
\* comes back.  Calls from outside arrive or not.
WorkflowStep(w) ==
    \/ FindServerReturns(w)
    \/ UnshelveReturns(w)
    \/ PollActiveReturns(w)
    \/ ProbeResponds(w)
    \/ ProbeSleepEnds(w)
    \/ TerminalLogEnds(w)
    \/ FailureLogEnds(w)
    \/ WorkflowLockGranted(w)

NextPolling ==
    \/ \E c \in Callers, id \in Buttons : StartUnshelve(c, id)
    \/ \E c \in Callers : StartLockGranted(c)
    \/ \E c \in Callers : StartLogEnds(c)
    \/ \E w \in Tasks : FindServerReturns(w)
    \/ \E w \in Tasks : UnshelveReturns(w)
    \/ \E w \in Tasks : PollActiveReturns(w)
    \/ \E w \in Tasks : ProbeResponds(w)
    \/ \E w \in Tasks : ProbeSleepEnds(w)
    \/ \E w \in Tasks : TerminalLogEnds(w)
    \/ \E w \in Tasks : FailureLogEnds(w)
    \/ \E w \in Tasks : WorkflowLockGranted(w)
    \/ \E w \in Tasks : ClearTaskRuns(w)
    \/ \E w \in Tasks : ClearTaskLockGranted(w)

SpecPolling ==
    /\ Init
    /\ [][NextPolling]_vars
    /\ \A w \in Tasks : WF_vars(WorkflowStep(w))
    /\ \A w \in Tasks : WF_vars(ClearTaskRuns(w) \/ ClearTaskLockGranted(w))
    /\ \A c \in Callers : WF_vars(StartLockGranted(c) \/ StartLogEnds(c))

\* Task w is in the loop of _wait_until_active: asleep before its next get_server, or
\* about to store the message of the round.
Polling(w) == wf[w].pc \in {"W_poll", "W_upd_booting"}

\* C13: an unshelve workflow does not poll forever: when the provider status becomes
\* ERROR, or never becomes ACTIVE and stays at statuses the workflow does not handle
\* (SHUTOFF, empty), the workflow leaves the polling loop and fails.
C13_UnshelvePollingEnds == \A w \in Tasks : Polling(w) ~> ~Polling(w)

----------------------------------------------------------------------------
\* C14: no state is terminal: whenever the record of a target has running=false,
\* whatever its state field says, the registry test of start_unshelve and start_shelve
\* passes, so the next start call on the target launches a workflow instead of
\* returning the current record.
C14_IdleTargetAcceptsStart ==
    \A b \in Buttons : ~statuses[b].running => ~TaskRunning(Cur, b)

----------------------------------------------------------------------------
\* The refresh_status call of caller c, whose lookup has come back, stores its message
\* and returns in this step.
RefreshEnds(c) == calls[c].op = "refresh" /\ calls'[c].op = "idle"

\* C15: refresh_status never changes a record that has running=true, also when a
\* start_* call came in between the running test of the refresh and the return of
\* its provider lookup.
C15_RefreshLeavesRunningRecord ==
    [][\A c \in Callers :
         RefreshEnds(c) /\ statuses[calls[c].id].running =>
           statuses'[calls[c].id] = statuses[calls[c].id]]_vars

----------------------------------------------------------------------------
\* C16: a refresh_status call that goes on to its lookup (no workflow was running)
\* makes exactly one provider lookup and changes only the message of the record:
\* state, running, url, http_ready and error stay as they are, also when the lookup
\* fails or finds no instance; the registry, the tasks and the audit log are not
\* touched, and the record returned is the one stored.
C16_RefreshChangesOnlyMessage ==
    [][\A c \in Callers :
         /\ RefreshEnds(c) =>
              LET id == calls[c].id
              IN /\ \E m \in PrimeMessages :
                      statuses' = [statuses EXCEPT ![id].message = m]
                 /\ ret' = Returned("refresh", id, statuses'[id], 0)
                 /\ UNCHANGED <<tasks, wf, audit>>
         /\ calls[c].op = "refresh" /\ calls'[c].pc = "find" => calls[c].pc = "find"
         /\ calls[c].pc = "find" /\ calls'[c].pc = "upd" => UNCHANGED statuses]_vars

\* A refresh_status call on a target left in state=error by a failed workflow has
\* returned after its lookup failed: the record still holds state=error and the
\* error detail, with the message of the failed lookup.
C16_Witness ==
    /\ ret.op = "refresh" /\ ret.outcome = "returned"
    /\ ret.value.message = "unable_to_query" /\ ret.value.state = "error"
    /\ ret.value.error # None /\ ~ret.value.running
    /\ statuses[ret.id] = ret.value

----------------------------------------------------------------------------
\* The step is taken with the lock: by the process that holds it, or by one that
\* finds it free and takes it.
StepHoldsLock ==
    \/ lockHolder = NoProc
    \/ \E w \in Tasks : lockHolder = WfProc(w) /\ wf'[w] # wf[w]
    \/ \E c \in Callers : lockHolder = CallProc(c) /\ calls'[c] # calls[c]

\* A start_* call launches on target b in this step.
LaunchedOn(b) == \E c \in Callers : Launches(c) /\ calls'[c].id = b

\* A workflow of target b moves in this step and stops at one of the places pcs.
MovedTo(b, pcs) ==
    \E w \in Tasks : /\ wf[w].button = b /\ wf[w].kind \in {"unshelve", "shelve"}
                     /\ wf'[w] # wf[w] /\ wf'[w].pc \in pcs

\* C17: no update is lost: every change of a record is made in one step by a process
\* that has the lock, and a field keeps the value it was given until a process that
\* passes that field writes it: state and message change only at a launch, at the
\* end of a refresh or while a workflow of the target is executing; running only
\* when a start_* call launches or a workflow ends; error only at a launch or at an
\* update of a workflow that passes error; url and http_ready only at a launch or at
\* an update that passes them; a refresh changes nothing but the message.
C17_NoLostUpdate ==
    [][\A b \in Buttons :
         LET old == statuses[b]
             new == statuses'[b]
             Refreshed == \E c \in Callers : RefreshEnds(c) /\ calls[c].id = b
         IN /\ new # old => StepHoldsLock
            /\ new # old /\ Refreshed => new = [old EXCEPT !.message = new.message]
            /\ new.message # old.message \/ new.state # old.state =>
                 \/ LaunchedOn(b) \/ Refreshed
                 \/ ExecutingFor(b) # {}
            /\ new.running # old.running => LaunchedOn(b) \/ MovedTo(b, {"done"})
            /\ new.error # old.error => LaunchedOn(b) \/ MovedTo(b, {"T_log", "H_log"})
            /\ new.url # old.url =>
                 \/ LaunchedOn(b)
                 \/ MovedTo(b, {"F_update", "done", "P_upd_checking", "P_get", "T_log"})
            /\ new.http_ready # old.http_ready =>
                 \/ LaunchedOn(b)
                 \/ MovedTo(b, {"F_update", "done", "P_upd_checking", "P_get", "T_log",
                                "H_log"})]_vars

\* A refresh_status call that began before a workflow was launched has stored its
\* message while the workflow is probing: the state, url and running flag the
\* workflow wrote are still in the record.
C17_Witness ==
    /\ ret.op = "refresh" /\ ret.outcome = "returned"
    /\ ret.value.message \in PrimeMessages
    /\ ret.value.state = "checking_http" /\ ret.value.url = LaunchUrl
    /\ ret.value.running
    /\ statuses[ret.id] = ret.value

----------------------------------------------------------------------------
\* C18: whenever the idle callback fires while the instance is ACTIVE and no workflow
\* of the target is in flight, it starts a shelve workflow, whatever state the record
\* holds, the initial state=idle right after process start included: it never
\* returns without having called start_shelve.
C18_IdleCallbackShelvesActiveInstance ==
    [][~(/\ ret'.op = "idle_shutdown" /\ ret'.outcome = "skipped"
         /\ ret'.instance = "ACTIVE"
         /\ ExecutingFor(ret'.id) = {})]_vars

----------------------------------------------------------------------------
SpecIdle == Init /\ [][NextIdle]_vars

\* C19: with no matching activity record, the idle loop invokes the callback only
\* when now - last_activity >= idle_timeout, and two invocations are never closer
\* together than idle_timeout, whether the earlier invocation returned or raised.
C19_FiringsAtLeastTimeoutApart ==
    /\ monitor.pc = "callback" => monitor.now - monitor.last_activity >= IdleTimeout
    /\ monitor.prevFiredAt # -1 => monitor.firedAt - monitor.prevFiredAt >= IdleTimeout

----------------------------------------------------------------------------
\* A server and a preferred-network list are handed to build_endpoint.
InitAddress ==
    /\ ManagerInit
    /\ statuses[DefaultButton].message = "instance_status"
    /\ monitor = MonitorInit
    /\ log = NoLog
    /\ config = NoConfig
    /\ \E server \in AddressedServers, preferred_networks \in PreferredLists :
         resolve = [server |-> server, preferred_networks |-> preferred_networks,
                    address |-> None, done |-> FALSE]

NextAddress == SelectAddress

SpecAddress == InitAddress /\ [][NextAddress]_vars

\* The entries that carry an address.
WithAddress(entries) == SelectSeq(entries, LAMBDA c : c.addr # None)

\* The address entries of all networks, in the order of the networks.
RECURSIVE AllEntries(_)
AllEntries(addresses) ==
    IF addresses = <<>> THEN <<>>
    ELSE WithAddress(Head(addresses).entries) \o AllEntries(Tail(addresses))

\* The address the priority order (a) to (f) picks.
PriorityAddress(server, preferred_networks) ==
    LET addresses == server.addresses
        all == AllEntries(addresses)
        preferred ==
            FirstIndex({i \in DOMAIN preferred_networks :
                          WithAddress(NetworkEntries(addresses, preferred_networks[i])) # <<>>})
        floating == FirstIndex({i \in DOMAIN all : all[i].type = "floating"})
        ipv4 == FirstIndex({i \in DOMAIN all : all[i].version = 4})
    IN IF preferred # 0
       THEN WithAddress(NetworkEntries(addresses, preferred_networks[preferred]))[1].addr
       ELSE IF floating # 0 THEN all[floating].addr
       ELSE IF ipv4 # 0 THEN all[ipv4].addr
       ELSE IF all # <<>> THEN all[1].addr
       ELSE IF server.accessIPv4 # None THEN server.accessIPv4
       ELSE IF server.accessIPv6 # None THEN server.accessIPv6
       ELSE None

\* C20: select_address follows the strict priority order: the first address of the
\* first preferred network that has one; else the first floating address across all
\* networks; else the first IPv4 address across all networks; else the first address
\* of any kind; else accessIPv4; else accessIPv6; else None.
C20_SelectAddressFollowsPriority ==
    resolve.done =>
      resolve.address = PriorityAddress(resolve.server, resolve.preferred_networks)

----------------------------------------------------------------------------
\* The entries with an address that the server lists for the network named n.
AddressesIn(server, n) ==
    LET K == {k \in DOMAIN server.addresses : server.addresses[k].name = n}
    IN IF K = {} THEN <<>> ELSE WithAddress(server.addresses[CHOOSE k \in K : TRUE].entries)

\* The positions of preferred_networks whose network holds an address of the server.
PreferredWithAddress(r) ==
    {i \in DOMAIN r.preferred_networks :
       AddressesIn(r.server, r.preferred_networks[i]) # <<>>}

\* C21: a preferred network outranks the floating heuristic: whenever some preferred
\* network holds an address, select_address returns an address of the first such
\* preferred network, whatever floating addresses the other networks hold.
C21_PreferredOutranksFloating ==
    resolve.done /\ PreferredWithAddress(resolve) # {} =>
      LET first == CHOOSE i \in PreferredWithAddress(resolve) :
                     \A j \in PreferredWithAddress(resolve) : i <= j
          entries == AddressesIn(resolve.server, resolve.preferred_networks[first])
      IN \E i \in DOMAIN entries : resolve.address = entries[i].addr

\* The addresses {n1: [floating], n2: [fixed IPv4]} with preferred_networks = [n2]
\* have been resolved to the address of n2.
C21_Witness ==
    /\ resolve.done /\ resolve.preferred_networks = <<"n2">>
    /\ Len(resolve.server.addresses[1].entries) = 1
    /\ resolve.server.addresses[1].entries[1].type = "floating"
    /\ resolve.server.addresses[1].entries[1].addr # None
    /\ Len(resolve.server.addresses[2].entries) = 1
    /\ resolve.server.addresses[2].entries[1].type = "fixed"
    /\ resolve.server.addresses[2].entries[1].version = 4
    /\ resolve.address = "a21"

----------------------------------------------------------------------------
\* The monitor from start() to the return of stop().  The event loop runs a task
\* that can continue; time, the end of a sleep and the call of stop() come or not.
NextStop ==
    \/ Tick
    \/ IdleCheck
    \/ \E ok \in BOOLEAN : CallbackEnds(ok)
    \/ SleepEnds
    \/ TailRuns
    \/ StopCalled
    \/ \E t \in {"tail", "idle"} : Cancelled(t)
    \/ StopResumes

SpecStop ==
    /\ Init
    /\ [][NextStop]_vars
    /\ WF_vars(\E t \in {"tail", "idle"} : Cancelled(t))
    /\ WF_vars(StopResumes)

\* C22: stop() terminates wherever the two loops are when it is called, and once it
\* has returned both loops have exited: nothing scans the log, updates last_activity
\* or invokes the idle callback any more.
C22_StopEndsBothLoops ==
    /\ [][monitor.stop = "returned" =>
            /\ monitor.tail = "done" /\ monitor.pc = "done"
            /\ monitor' = [monitor EXCEPT !.clock = monitor'.clock]]_vars
    /\ (monitor.stop # "none" ~> monitor.stop = "returned")

\* stop() has returned after the idle task was cancelled inside the idle callback.
C22_Witness ==
    /\ monitor.stop = "returned" /\ monitor.interrupted = "callback"
    /\ monitor.tail = "done" /\ monitor.pc = "done"

----------------------------------------------------------------------------
\* A settings object with any combination of credential fields is about to be
\* validated; the manager does not exist yet.
InitConfig ==
    /\ ManagerInit
    /\ statuses[DefaultButton].message = "instance_status"
    /\ monitor = MonitorInit
    /\ log = NoLog
    /\ resolve = NoResolve
    /\ config \in [username : {None, "", "set"}, password : {None, "", "set"},
                   project_name : {None, "", "set"},
                   application_credential_id : {None, "", "set"},
                   application_credential_secret : {None, "", "set"},
                   outcome : {"pending"},
                   http_probe_attempts : {NoConfig.http_probe_attempts},
                   app_http_probe_attempts : {NoConfig.app_http_probe_attempts}]

SpecConfig == InitConfig /\ [][ValidateCredentials]_vars

\* The user name, password and project name are all present.
BasicComplete ==
    config.username = "set" /\ config.password = "set" /\ config.project_name = "set"

\* The application credential id and secret are both present.
ApplicationComplete ==
    config.application_credential_id = "set" /\ config.application_credential_secret = "set"

\* C23 as written: a configuration is accepted if and only if exactly one credential
\* set is fully present; with neither set complete, or with both, it is rejected.
C23_ExactlyOneCredentialSet ==
    config.outcome \notin {"loaded", "pending"} =>
      (config.outcome = "accepted" <=> (BasicComplete /\ ~ApplicationComplete)
                                         \/ (ApplicationComplete /\ ~BasicComplete))

\* C23, amended: a configuration is accepted if and only if at least one credential
\* set is fully present (all fields of the set non-empty); with neither set complete
\* it is rejected with a ValueError, and with both sets complete it is accepted.
C23_AtLeastOneCredentialSet ==
    config.outcome \notin {"loaded", "pending"} =>
      /\ config.outcome = "accepted" <=> BasicComplete \/ ApplicationComplete
      /\ config.outcome = "ValueError" <=> ~(BasicComplete \/ ApplicationComplete)

\* A configuration with both credential sets complete has been accepted.
C23_Witness == config.outcome = "accepted" /\ BasicComplete /\ ApplicationComplete

----------------------------------------------------------------------------
\* The unshelve decision.  Decides: the step in which an unshelve task acts on the
\* status its first lookup found (its first _update_status is done and it runs to its
\* next suspension).  That step leaves the task about to call unshelve_server, in
\* endpoint resolution or the probe with no poll made, in the polling loop, or failed
\* on the looked-up status with no poll made.  `failing` are the looked-up statuses
\* that end the workflow in its failure handler without a poll.
UnshelveDecision(failing) ==
    LET Decides(w) ==
            /\ wf[w].kind = "unshelve"
            /\ wf[w].pc \in {"U_find", "U_upd_current"}
            /\ wf'[w].pc \notin {"U_find", "U_upd_current"}
            /\ wf'[w].found # None
        RequestsUnshelve(y) ==
            /\ y.pc \in {"U_upd_requesting", "U_unshelve"}
            /\ y.requests = (IF y.pc = "U_unshelve" THEN 1 ELSE 0)
            /\ y.exc = None
        SkipsToEndpoint(y) ==
            /\ y.requests = 0
            /\ y.pc \in {"U_upd_noendpoint", "U_upd_active", "P_upd_checking", "P_get",
                         "F_update", "done", "H_update", "H_log"}
            /\ y.exc \in {None, "endpoint_error"}
        SkipsToPolling(y) ==
            /\ y.requests = 0
            /\ y.pc \in {"W_upd_booting", "W_poll"}
            /\ y.exc = None
        SkipsToFailure(y) ==
            /\ y.requests = 0
            /\ y.pc \in {"H_update", "H_log"}
            /\ y.exc \in {"entered_ERROR", "entered_UNKNOWN"}
    IN \A w \in Tasks :
         Decides(w) =>
           LET x == wf[w]
               y == wf'[w]
           IN /\ \/ RequestsUnshelve(y)
                 \/ SkipsToEndpoint(y)
                 \/ SkipsToPolling(y)
                 \/ failing # {} /\ SkipsToFailure(y)
              /\ x.pc = "U_upd_current" =>
                   IF x.status \in {"SHELVED", "SHELVED_OFFLOADED"} THEN RequestsUnshelve(y)
                   ELSE IF x.status = "ACTIVE" THEN SkipsToEndpoint(y)
                   ELSE IF x.status \in failing THEN SkipsToFailure(y)
                   ELSE SkipsToPolling(y)

\* An unshelve task has made one unshelve_server call if its lookup found the
\* instance shelved and it is past the two updates before the call, and none otherwise.
UnshelveCalledOnceIffShelved ==
    \A w \in Tasks :
      wf[w].kind = "unshelve" =>
        wf[w].requests =
          (IF wf[w].found = "shelved" /\ wf[w].pc \notin {"U_upd_current", "U_upd_requesting"}
           THEN 1 ELSE 0)

\* C24 (as stated): an unshelve workflow calls unshelve_server if and only if its
\* initial lookup found SHELVED or SHELVED_OFFLOADED, and then exactly once; for every
\* other initial status it makes no call, raises nothing, and goes to polling for
\* ACTIVE, an instance already ACTIVE going on to endpoint resolution without a poll.
C24_EveryOtherStatusPolls ==
    /\ [][UnshelveDecision({})]_vars
    /\ [] UnshelveCalledOnceIffShelved

\* C24 (amended): an unshelve workflow calls unshelve_server if and only if its
\* initial lookup found SHELVED or SHELVED_OFFLOADED, and then exactly once; for every
\* other initial status it makes no call and enters the wait for ACTIVE with the
\* looked-up server as its first observation: ACTIVE goes on to endpoint resolution
\* without a poll, ERROR or UNKNOWN fails the workflow without a poll, and any other
\* status goes to polling.
C24_OtherStatusPollsUnlessFailed ==
    /\ [][UnshelveDecision({"ERROR", "UNKNOWN"})]_vars
    /\ [] UnshelveCalledOnceIffShelved

\* An unshelve workflow whose lookup found the instance not shelved has made no
\* unshelve call and is in its failure handler for the status ERROR.
C24_Witness ==
    \E w \in Tasks :
      /\ wf[w].kind = "unshelve" /\ wf[w].found = "not_shelved"
      /\ wf[w].requests = 0 /\ wf[w].exc = "entered_ERROR" /\ wf[w].pc = "H_log"
      /\ statuses[wf[w].button].state = "error"

----------------------------------------------------------------------------
\* C25: a shelve workflow that returns from its try block (no step of it raised) took
\* one of two ways.  If its lookup found the instance SHELVED or SHELVED_OFFLOADED it
\* made no shelve_server call and recorded one shelve_complete event with the detail
\* 'already shelved'; otherwise it made exactly one shelve_server call, polled until
\* it saw a shelved status, and recorded one shelve_complete event.  Either way it
\* ends with state=shelved, url=None, http_ready=false and running=false.
C25_ShelveEndsShelved ==
    [][\A w \in Tasks :
         Ends(w) /\ wf'[w].kind = "shelve" /\ wf'[w].exc = None =>
           /\ wf'[w].branch \in {"already_shelved", "shelved"}
           /\ wf'[w].branch = "already_shelved" =>
                wf'[w].requests = 0 /\ wf'[w].detail = "already shelved"
           /\ wf'[w].branch = "shelved" =>
                wf'[w].requests = 1 /\ wf'[w].detail # "already shelved"
           /\ Count(audit'[w], "shelve_complete") = 1
           /\ RecordAfter(w).state = "shelved" /\ RecordAfter(w).url = None
           /\ ~RecordAfter(w).http_ready /\ ~RecordAfter(w).running]_vars

----------------------------------------------------------------------------
\* C26: a shelve workflow that has issued the shelve request marks the record shelved
\* only out of a poll, and ends only marked shelved or with an exception caught;
\* while it waits for a shelved status the record shows running=true and
\* state=shelving, and no start_unshelve or start_shelve on its target launches a task.
\* (ShelvePolling: the task awaits the shelve call or a poll, or its progress update
\* waits for the lock.)
C26_ShelvePollingHoldsTarget ==
    [][\A w \in Tasks :
         LET x == wf[w]
             y == wf'[w]
             ShelvePolling(z) ==
                 z.kind = "shelve" /\ z.pc \in {"S_shelve", "V_poll", "V_upd_progress"}
         IN /\ x.kind = "shelve" /\ x.branch # "shelved" /\ y.branch = "shelved" =>
                 x.pc \in {"V_poll", "S_upd_shelved"}
            /\ Ends(w) /\ y.kind = "shelve" /\ y.requests = 1 =>
                 y.branch = "shelved" \/ y.exc # None
            /\ ShelvePolling(x) =>
                 /\ statuses[x.button].running /\ statuses[x.button].state = "shelving"
                 /\ \A c \in Callers : Launches(c) => calls'[c].id # x.button
                 /\ ret'.op \in StartOps /\ ret'.id = x.button /\ ret'.task = 0 =>
                      ret'.outcome = "returned" /\ UNCHANGED <<statuses, tasks>>]_vars

----------------------------------------------------------------------------
\* One unshelve workflow at a time under each combination of the target's
\* http_probe_attempts (0: not set) and the application's http_probe_attempts.
InitProbe ==
    /\ ManagerInit
    /\ monitor = MonitorInit
    /\ log = NoLog
    /\ resolve = NoResolve
    /\ \E o \in 0..ProbeAttempts, a \in 1..ProbeAttempts :
         config = [NoConfig EXCEPT !.http_probe_attempts = o,
                                   !.app_http_probe_attempts = a]

SpecProbe == InitProbe /\ [][NextPolling]_vars

\* C27: with N the target's http_probe_attempts if it is set and the application's
\* otherwise, the readiness probe issues at most N GETs, and a further GET only after
\* a failed one; a response below 400 ends the probe with success; a response of 400
\* or above and a transport error are failed attempts: after a failed attempt before
\* the N-th the probe sleeps, and after the N-th failed attempt it reports failure at
\* once, with the detail of that attempt.
C27_ProbeBoundedByAttempts ==
    [][\A w \in Tasks :
         LET x == wf[w]
             y == wf'[w]
             N == IF config.http_probe_attempts # 0 THEN config.http_probe_attempts
                  ELSE config.app_http_probe_attempts
             Failed == {"http_error_status", "transport_error"}
             DetailOf(r) == IF r = "http_error_status" THEN "HTTP 500" ELSE "transport_error"
             Succeeds(z) == z.pc = "U_upd_ready" \/ z.branch = "ready"
             Fails(z) == z.pc = "U_upd_incomplete" \/ z.branch = "incomplete"
         IN /\ y.gets <= N
            /\ y.gets # x.gets /\ y.kind = "unshelve" =>
                 /\ y.gets = x.gets + 1
                 /\ IF x.gets = 0 THEN x.last = None
                    ELSE x.last \in Failed /\ x.pc \in {"P_sleep", "P_upd_checking"}
            /\ x.pc = "P_get" /\ y.pc # "P_get" =>
                 /\ y.last = "ok" => Succeeds(y) /\ y.gets = x.gets
                 /\ y.last \in Failed /\ x.gets < N => y.pc = "P_sleep"
                 /\ y.last \in Failed /\ x.gets = N =>
                      Fails(y) /\ y.detail = DetailOf(y.last)
            /\ Succeeds(y) /\ ~Succeeds(x) => x.pc = "P_get" /\ y.last = "ok"
            /\ Fails(y) /\ ~Fails(x) =>
                 x.pc = "P_get" /\ y.gets = N /\ y.last \in Failed
            /\ y.pc = "P_sleep" => y.gets < N /\ y.last \in Failed]_vars

\* A probe of a target whose http_probe_attempts (1) is below the application's has
\* reported failure after one GET, which ended with a transport error.
C27_Witness ==
    \E w \in Tasks :
      /\ config.http_probe_attempts = 1 /\ config.app_http_probe_attempts > 1
      /\ wf[w].branch = "incomplete" /\ wf[w].gets = 1
      /\ wf[w].last = "transport_error" /\ wf[w].detail = "transport_error"
      /\ statuses[wf[w].button].error = "transport_error"

----------------------------------------------------------------------------
\* C28: every change of a record's state follows the state machine: unshelving is
\* entered by start_unshelve or the unshelve workflow and shelving by start_shelve or
\* the shelve workflow; booting only from unshelving; active only from booting or
\* checking_http; checking_http only from active; ready only from checking_http;
\* shelved only from shelving; error only from a record with running=true; idle is
\* never re-entered.
C28_StateChangesFollowMachine ==
    \A i \in DOMAIN changes :
      LET c == changes[i]
      IN /\ c.to = "unshelving" => c.by \in {"start_unshelve", "unshelve"}
         /\ c.to = "shelving" => c.by \in {"start_shelve", "shelve"}
         /\ c.to = "booting" => c.from = "unshelving"
         /\ c.to = "active" => c.from \in {"booting", "checking_http"}
         /\ c.to = "checking_http" => c.from = "active"
         /\ c.to = "ready" => c.from = "checking_http"
         /\ c.to = "shelved" => c.from = "shelving"
         /\ c.to = "error" => c.running
         /\ c.to # "idle"

----------------------------------------------------------------------------
\* C29: in every reachable state a record with state=ready or state=shelved has
\* error=None and a record with state=error has error set, and a start_unshelve or
\* start_shelve call that launches leaves the record with error=None.
C29_ErrorFollowsState ==
    /\ [](\A b \in Buttons :
            /\ statuses[b].state \in {"ready", "shelved"} => statuses[b].error = None
            /\ statuses[b].state = "error" => statuses[b].error # None)
    /\ [][\A c \in Callers :
            Launches(c) => statuses'[calls'[c].id].error = None
                           /\ calls'[c].updated.error = None]_vars

----------------------------------------------------------------------------
\* C30: in every reachable state a record with http_ready=true has state=ready and a
\* url, and a workflow of its target that is executing is past a successful probe
\* (none is unshelving, booting, probing or shelving); http_ready becomes true only in
\* the step of a workflow whose healthcheck GET got a response below 400, and is false
\* after every start_* call that launches and after every run of a failure handler.
C30_HttpReadyOnlyWhenReady ==
    /\ [](\A b \in Buttons :
            statuses[b].http_ready =>
              /\ statuses[b].state = "ready" /\ statuses[b].url # None
              /\ \A w \in ExecutingFor(b) : wf[w].branch = "ready")
    /\ [][/\ \A b \in Buttons :
               ~statuses[b].http_ready /\ statuses'[b].http_ready =>
                 \E w \in Tasks : /\ wf[w].button = b /\ wf[w].pc \in {"P_get", "U_upd_ready"}
                                  /\ wf'[w].last = "ok" /\ wf'[w].branch = "ready"
          /\ \A c \in Callers : Launches(c) => ~statuses'[calls'[c].id].http_ready
          /\ \A w \in Tasks :
               wf[w].pc # "H_log" /\ wf'[w].pc = "H_log" => ~RecordAfter(w).http_ready]_vars

----------------------------------------------------------------------------
\* C31: a scan that observes a matching record moves last_activity to the time of the
\* scan and a scan that observes none leaves it; last_activity never decreases; and
\* the idle callback is invoked only when at least idle_timeout has passed since the
\* monitor last observed a matching record.
C31_LastActivityNeverDecreases ==
    [][/\ monitor'.last_activity >= monitor.last_activity
       /\ monitor'.tail # monitor.tail \/ monitor'.seen # monitor.seen =>
            monitor'.last_activity = IF monitor'.seen # monitor.seen THEN monitor'.seen
                                     ELSE monitor.last_activity
       /\ monitor.pc = "check" /\ monitor'.pc = "callback" /\ monitor.seen # -1 =>
            monitor'.now - monitor.seen >= IdleTimeout]_vars

----------------------------------------------------------------------------
\* C32: a scan that raises leaves the tail loop asleep before its next scan and an
\* idle callback that raises leaves the idle loop asleep before its next idle check;
\* a loop ends only after stop() was called.
C32_LoopsSurviveFailures ==
    [][/\ monitor.stop = "none" /\ monitor.health.tail = "raised" => monitor.tail = "sleep"
       /\ monitor.stop = "none" /\ monitor.health.idle = "raised" =>
            monitor.pc \in {"sleep", "check"}
       /\ monitor.tail # "done" /\ monitor'.tail = "done" => monitor.stop # "none"
       /\ monitor.pc # "done" /\ monitor'.pc = "done" => monitor.stop # "none"]_vars

\* Before any stop(), the tail loop has scanned again after a scan that raised and
\* the idle loop has made an idle check after a callback that raised.
C32_Witness ==
    /\ monitor.stop = "none"
    /\ monitor.health.tail = "resumed" /\ monitor.health.idle = "resumed"
    /\ monitor.tail = "sleep" /\ monitor.pc \in {"sleep", "callback"}

----------------------------------------------------------------------------
\* The access log and ActivityMonitor._scan_once.  The file is a sequence of bytes:
\* "a" is a byte of a record, "nl" the newline that ends one.  processed lists
\* what was handed to _process_line: the position it was read at and its bytes.
LogBytes == {"a", "nl"}
MaxBytes == 5

\* handle.readline() with start bytes consumed: the bytes up to and including the
\* next newline, the rest of the file when no newline follows, nothing at its end.
readline(file, start) ==
    LET ends == {i \in (start + 1)..Len(file) : file[i] = "nl"}
        stop == IF ends = {} THEN Len(file) ELSE CHOOSE i \in ends : \A j \in ends : i <= j
    IN SubSeq(file, start + 1, stop)

\* The while loop of _scan_once: read a line, leave at the end of the file, store
\* handle.tell(), process the line.  _process_line raises on the line numbered
\* raising, after the offset was stored; it swallows a line that is not JSON.
RECURSIVE ReadLines(_, _)
ReadLines(l, raising) ==
    LET line == readline(l.file, l.offset)
        read == [l EXCEPT !.offset = @ + Len(line),
                          !.processed = Append(@, [start |-> l.offset, line |-> line])]
    IN IF line = <<>> THEN l
       ELSE IF raising = 1 THEN read
       ELSE ReadLines(read, raising - 1)

\* The writer of the log writes one more byte to it, creating it when it is missing.
AppendByte ==
    /\ Len(log.file) < MaxBytes
    /\ Len(log.processed) < MaxBytes
    /\ \E byte \in LogBytes :
         log' = [log EXCEPT !.exists = TRUE, !.file = Append(@, byte)]
    /\ UNCHANGED <<managerVars, monitor, resolve, config>>

\* The log is rotated: emptied in place, or removed until the writer creates it again.
Truncate ==
    /\ log.exists /\ ~log.truncated
    /\ \E exists \in BOOLEAN :
         log' = [log EXCEPT !.exists = exists, !.file = <<>>, !.truncated = TRUE]
    /\ UNCHANGED <<managerVars, monitor, resolve, config>>

\* _scan_once: nothing without a file; the offset goes back to zero when the file
\* is shorter than it; the lines from the offset on are read and processed.
ScanOnce ==
    /\ \E raising \in 1..(MaxBytes + 1) :
         log' = IF ~log.exists THEN log
                ELSE ReadLines([log EXCEPT !.offset = IF Len(log.file) < @ THEN 0 ELSE @],
                               raising)
    /\ log' # log
    /\ UNCHANGED <<managerVars, monitor, resolve, config>>

NextTail ==
    \/ AppendByte
    \/ Truncate
    \/ ScanOnce

SpecTail == Init /\ [][NextTail]_vars

\* C33: the tail reads only what was appended since the previous scan: while the log
\* was never truncated, what was processed is the bytes before the offset, in order,
\* each once, the offset is within the file, and every complete line of the file
\* that ends at or before the offset was processed as that line, once; and a scan that finds the
\* file shorter than the offset sets the offset to zero and processes the file from
\* its start.
C33_EveryLineProcessedOnce ==
    [][LET end(p, i) == p[i].start + Len(p[i].line)
           complete(l) == {s \in 0..(l.offset - 1) :
                             /\ s = 0 \/ l.file[s] = "nl"
                             /\ s + Len(readline(l.file, s)) <= l.offset
                             /\ readline(l.file, s)[Len(readline(l.file, s))] = "nl"}
           OnlyAppended(l) ==
               /\ l.offset <= Len(l.file)
               /\ \A i \in DOMAIN l.processed :
                    l.processed[i].start = IF i = 1 THEN 0 ELSE end(l.processed, i - 1)
               /\ l.processed # <<>> => end(l.processed, Len(l.processed)) = l.offset
           ExactlyOnce(l) ==
               \A s \in complete(l) :
                 Cardinality({i \in DOMAIN l.processed :
                                l.processed[i] = [start |-> s,
                                                  line |-> readline(l.file, s)]}) = 1
           scan == log'.file = log.file /\ log'.exists = log.exists /\ log' # log
       IN /\ ~log'.truncated => OnlyAppended(log') /\ ExactlyOnce(log')
          /\ scan /\ Len(log.file) < log.offset =>
               /\ log'.offset <= Len(log.file)
               /\ Len(log.file) > 0 =>
                    /\ Len(log'.processed) > Len(log.processed)
                    /\ log'.processed[Len(log.processed) + 1].start = 0]_vars

----------------------------------------------------------------------------
\* C34: a record that is not running is at rest: its state is idle, active, ready,
\* shelved or error, never unshelving, booting, checking_http or shelving.
C34_RestingStateWhenNotRunning ==
    \A b \in Buttons :
      ~statuses[b].running => statuses[b].state \in {"idle", "active", "ready", "shelved", "error"}

----------------------------------------------------------------------------
\* C35: a workflow that finishes has recorded exactly one terminal audit event
\* (unshelve_complete, unshelve_incomplete, shelve_complete or workflow_failed),
\* whichever path it took, the unshelve path without a reachable address included.
C35_OneTerminalEventPerWorkflow ==
    [][\A w \in Tasks :
         Executing(wf[w]) /\ wf'[w].pc = "done" =>
           Cardinality({i \in DOMAIN audit'[w] :
                          audit'[w][i] \in {"unshelve_complete", "unshelve_incomplete",
                                            "shelve_complete", "workflow_failed"}}) = 1]_vars

----------------------------------------------------------------------------
\* C36: for every launched workflow the *_requested event is recorded before the
\* workflow makes its first status mutation and before any terminal event of it:
\* once the workflow has written the record or a terminal event is in the log, the
\* first audit line of the task is its *_requested event.
C36_RequestedEventComesFirst ==
    \A w \in Tasks :
      wf[w].mutated \/ audit[w] # <<>> =>
        /\ audit[w] # <<>>
        /\ audit[w][1] = (IF wf[w].kind = "unshelve" THEN "unshelve_requested"
                          ELSE "shelve_requested")

----------------------------------------------------------------------------
\* C37: the manager lock does not deadlock: a coroutine that waits for it (queued, or
\* handed the lock and not yet run) always gets to run with the lock, as long as
\* audit writes end.
C37_LockWaitersAcquire ==
    \A p \in {WfProc(w) : w \in Tasks} \cup {ClrProc(w) : w \in Tasks}
               \cup {CallProc(c) : c \in Callers} :
      LET Waiting ==
              \/ \E i \in DOMAIN lockWaiters : lockWaiters[i] = p
              \/ /\ lockHolder = p
                 /\ p[1] = "call" => calls[p[2]].pc = "lock"
      IN Waiting ~> ~Waiting

\* Two coroutines are queued for the lock while a start_* call holds it across its
\* audit write.
C37_Witness ==
    /\ Len(lockWaiters) >= 2
    /\ \E c \in Callers : lockHolder = CallProc(c) /\ calls[c].pc = "log"
    /\ \E i \in DOMAIN lockWaiters : lockWaiters[i][1] = "wf"
    /\ \E i \in DOMAIN lockWaiters : lockWaiters[i][1] = "clr"

----------------------------------------------------------------------------
\* C38: while a workflow executes for a target, the registry entry of the target is
\* that workflow's own task, neither absent nor another task; and an entry is only
\* removed by the _clear_task of the task it holds, never by the cleanup of an
\* older task.
C38_RegistryHoldsExecutingTask ==
    [][/\ \A w \in Tasks : Executing(wf'[w]) => tasks'[wf'[w].button] = w
       /\ \A b \in Buttons :
            tasks[b] # 0 /\ tasks'[b] # tasks[b] =>
              \/ tasks'[b] = 0 /\ clr[tasks[b]] # "finished" /\ clr'[tasks[b]] = "finished"
              \/ tasks'[b] # 0 /\ ~Executing(wf[tasks[b]])]_vars

====
